---- MODULE Spec2Model ----
(***************************************************************************)
(* Model of the SysML v2 diagram viewer: the host side (DiagramPanel in    *)
(* client/src/diagram-panel.ts, the command in activate) and the webview   *)
(* side (processSymbols, symbolToNode and DiagramApp in                    *)
(* webview/src/index.tsx).                                                 *)
(*                                                                         *)
(* Strings the code parses (qualified names, names, types) are sequences   *)
(* of one-character strings; strings the code only compares (kind,         *)
(* usageKind, message types) are TLA+ strings. An optional value is <<>>   *)
(* (undefined / null) or <<v>>.                                            *)
(***************************************************************************)
EXTENDS Integers, Sequences, FiniteSets, TLC

\* ------------------------------------------------------------------ bounds
MaxPanels == 2      \* DiagramPanel objects constructed in one run
MaxCalls == 2       \* refreshDiagram invocations in one run
MaxSyms == 3        \* length of a symbol list drawn from the full universe
MaxLong == 6        \* length of a symbol list drawn from the small universe

\* ------------------------------------------------------- string helpers
Undefined == "undefined"

None == <<>>

Some(v) == <<v>>

\* JavaScript truthiness of an optional string: undefined, null and "" are falsy
Truthy(opt) == Len(opt) = 1 /\ Len(opt[1]) > 0

\* String.prototype.lastIndexOf(sep), 0-based, -1 when absent
LastIndexOf(s, sep) ==
    LET hits == {i \in 0..(Len(s) - Len(sep)) : SubSeq(s, i + 1, i + Len(sep)) = sep}
    IN IF hits = {} THEN -1 ELSE CHOOSE i \in hits : \A j \in hits : j <= i

\* String.prototype.replace(/::/g, '_'): leftmost, non-overlapping
RECURSIVE ReplaceSeparators(_)
ReplaceSeparators(s) ==
    IF Len(s) = 0 THEN <<>>
    ELSE IF Len(s) >= 2 /\ s[1] = ":" /\ s[2] = ":"
         THEN <<"_">> \o ReplaceSeparators(SubSeq(s, 3, Len(s)))
         ELSE <<s[1]>> \o ReplaceSeparators(Tail(s))

Separator == <<":", ":">>

\* --------------------------------------------------- feature attachment
FEATURE_TYPES == {"Attribute", "Reference"}

isFeatureSymbol(symbol) ==
    IF symbol.kind = "Usage" /\ symbol.usageKind # Undefined
    THEN symbol.usageKind \in FEATURE_TYPES
    ELSE FALSE

getParentQualifiedName(qualifiedName) ==
    LET lastSeparator == LastIndexOf(qualifiedName, Separator)
    IN IF lastSeparator = -1 THEN None
       ELSE Some(SubSeq(qualifiedName, 1, lastSeparator))

\* the keys of symbolMap
symbolMapKeys(symbols) == {symbols[i].qualifiedName : i \in 1..Len(symbols)}

\* the branch of processSymbols' loop that attaches symbol i to its parent
attachesToParent(symbols, i) ==
    /\ isFeatureSymbol(symbols[i])
    /\ LET parentQN == getParentQualifiedName(symbols[i].qualifiedName)
       IN Truthy(parentQN) /\ parentQN[1] \in symbolMapKeys(symbols)

featureStr(symbol) ==
    IF Truthy(symbol.typedBy)
    THEN symbol.name \o <<" ", ":", " ">> \o symbol.typedBy[1]
    ELSE symbol.name

\* featuresByParent.get(parentQN) || [] after the loop has seen symbols 1..n
RECURSIVE featuresByParent(_, _, _)
featuresByParent(symbols, parentQN, n) ==
    IF n = 0 THEN <<>>
    ELSE LET rest == featuresByParent(symbols, parentQN, n - 1)
         IN IF /\ attachesToParent(symbols, n)
               /\ getParentQualifiedName(symbols[n].qualifiedName)[1] = parentQN
            THEN Append(rest, featureStr(symbols[n]))
            ELSE rest

\* topLevelSymbols after the loop has seen symbols 1..n
RECURSIVE topLevelSymbols(_, _)
topLevelSymbols(symbols, n) ==
    IF n = 0 THEN <<>>
    ELSE LET rest == topLevelSymbols(symbols, n - 1)
         IN IF attachesToParent(symbols, n) THEN rest ELSE Append(rest, symbols[n])

ownFeatures(symbol) == IF Len(symbol.features) = 1 THEN symbol.features[1] ELSE <<>>

processSymbols(symbols) ==
    LET top == topLevelSymbols(symbols, Len(symbols))
    IN [k \in 1..Len(top) |->
          [top[k] EXCEPT !.features =
              Some(ownFeatures(top[k])
                   \o featuresByParent(symbols, top[k].qualifiedName, Len(symbols)))]]

\* ------------------------------------------------------------ grid layout
cols == 4

nodeWidth == 180

nodeHeight == 100

gap == 40

nodeTypeOf(symbol) ==
    IF symbol.kind = "Definition" /\ symbol.definitionKind # Undefined
    THEN <<symbol.definitionKind, "Def">>
    ELSE IF symbol.kind = "Usage" /\ symbol.usageKind # Undefined
    THEN <<symbol.usageKind, "Usage">>
    ELSE IF symbol.kind = "Package" THEN <<"Package">>
    ELSE IF symbol.kind = "Feature" THEN <<"Feature">>
    ELSE IF symbol.kind = "Classifier" /\ symbol.definitionKind # Undefined
    THEN <<symbol.definitionKind, "Def">>
    ELSE <<"default">>

gridColumnNoWrap(index) == index

gridColumn(index) == index % cols

gridRow(index) == index \div cols

\* index is 0-based, as in Array.prototype.map
symbolToNode(symbol, index) ==
    [id |-> ReplaceSeparators(symbol.qualifiedName),
     type |-> nodeTypeOf(symbol),
     position |-> [x |-> gridColumn(index) * (nodeWidth + gap) + gap,
                   y |-> gridRow(index) * (nodeHeight + gap) + gap],
     data |-> [name |-> symbol.name,
               qualifiedName |-> symbol.qualifiedName,
               features |-> symbol.features,
               typedBy |-> symbol.typedBy,
               kind |-> nodeTypeOf(symbol)]]

relationshipToEdge(rel, index) ==
    [id |-> <<"edge_", index>>,
     source |-> ReplaceSeparators(rel.source),
     target |-> ReplaceSeparators(rel.target),
     type |-> rel.type,
     label |-> rel.type]

\* the 'diagram' case of the webview's handleMessage, up to the setState calls
diagramNodes(data) ==
    LET processedSymbols == processSymbols(data.symbols)
    IN [k \in 1..Len(processedSymbols) |-> symbolToNode(processedSymbols[k], k - 1)]

diagramEdges(data) ==
    [k \in 1..Len(data.relationships) |-> relationshipToEdge(data.relationships[k], k - 1)]


\* ------------------------------------------------- data sent by the server
QN_Empty == <<>>

QN_A == <<"A">>

QN_Ab == <<"A", ":", ":", "b">>

QN_Abc == <<"A", ":", ":", "b", ":", ":", "c">>

QN_x == <<":", ":", "x">>

\* the server names a symbol by the last segment of its qualified name
lastSegment(qn) ==
    LET k == LastIndexOf(qn, Separator)
    IN IF k = -1 THEN qn ELSE SubSeq(qn, k + 3, Len(qn))

Sym(qn, kind, definitionKind, usageKind, typedBy, features) ==
    [name |-> lastSegment(qn), qualifiedName |-> qn, kind |-> kind,
     definitionKind |-> definitionKind, usageKind |-> usageKind,
     typedBy |-> typedBy, features |-> features]

PartDef(qn) == Sym(qn, "Definition", "Part", Undefined, None, Some(<< <<"f">> >>))

AttrUsage(qn) == Sym(qn, "Usage", Undefined, "Attribute", None, None)

TypedAttrUsage(qn) == Sym(qn, "Usage", Undefined, "Attribute", Some(<<"T">>), None)

RefUsage(qn) == Sym(qn, "Usage", Undefined, "Reference", None, None)

PartUsage(qn) == Sym(qn, "Usage", Undefined, "Part", Some(<<"T">>), None)

SymbolUniverse ==
    {PartDef(QN_Empty), AttrUsage(QN_Empty),
     AttrUsage(QN_x), PartDef(QN_x),
     PartDef(QN_A), TypedAttrUsage(QN_A), PartUsage(QN_A),
     TypedAttrUsage(QN_Ab), RefUsage(QN_Ab), PartDef(QN_Ab), PartUsage(QN_Ab),
     AttrUsage(QN_Abc), TypedAttrUsage(QN_Abc), PartUsage(QN_Abc)}

SmallUniverse == {PartDef(QN_A), TypedAttrUsage(QN_Ab), PartUsage(QN_Ab)}

SeqsUpTo(S, n) == UNION {[1..k -> S] : k \in 0..n}

SymbolLists == SeqsUpTo(SymbolUniverse, MaxSyms) \cup SeqsUpTo(SmallUniverse, MaxLong)

DiagramData(symbols, relationships) ==
    [symbols |-> symbols, relationships |-> relationships]

EmptyData == DiagramData(<<>>, <<>>)

SampleData ==
    DiagramData(<<PartDef(QN_A), TypedAttrUsage(QN_Ab), PartUsage(QN_Abc)>>,
                <<[type |-> "typing", source |-> QN_Abc, target |-> QN_A]>>)

\* what the server answers in the specification of the host
Results == {EmptyData, SampleData}

\* what the server answers in the specification of the symbol translation
InputData == {DiagramData(l, <<>>) : l \in SymbolLists}

\* ------------------------------------------------------------ documents
Docs == {1, 2, 3}

NoEditor == 0

languageId(doc) == CASE doc = 1 -> "sysml" [] doc = 2 -> "kerml" [] OTHER -> "plaintext"

\* vscode.Uri objects are the document numbers; NoUri is an undefined uri
NoUri == 0

UriToString(uri) == <<"file:///doc", uri>>

\* uri?.toString()
OptUriToString(uri) == IF uri = NoUri THEN None ELSE Some(UriToString(uri))

\* a test that leaves kerml out
isSysMLFileOnlySysml(doc) == languageId(doc) = "sysml"

isSysMLFile(doc) == languageId(doc) = "sysml" \/ languageId(doc) = "kerml"


\* ---------------------------------------------------------------- state
VARIABLES
    currentPanel,   \* DiagramPanel.currentPanel: 0 (undefined) or a panel number
    panels,         \* the DiagramPanel objects constructed so far, by number
    activeEditor,   \* vscode.window.activeTextEditor: NoEditor or a document
    lsp,            \* the language-support extension as getLspClient sees it
    calls,          \* the refreshDiagram invocations, by number
    toHost,         \* per panel, webview messages not yet handled by the host
    toWebview,      \* per panel, host messages not yet handled by the webview
    webview,        \* per panel, the state of DiagramApp
    editorOps,      \* the editor actions the host has performed
    lastResponse    \* the latest answer of the server: <<call, result>>, or <<>>

vars == <<currentPanel, panels, activeEditor, lsp, calls, toHost, toWebview,
          webview, editorOps, lastResponse>>

Panels == 1..MaxPanels

Calls == 1..MaxCalls

Listeners == <<"onDidDispose", "onDidReceiveMessage", "onDidChangeActiveTextEditor">>

NoPanel ==
    [constructed |-> FALSE, isDisposed |-> FALSE, panelDisposed |-> FALSE,
     disposables |-> <<>>, disposedListeners |-> {}]

\* the DiagramPanel constructor: three listeners pushed to this.disposables
NewPanel ==
    [constructed |-> TRUE, isDisposed |-> FALSE, panelDisposed |-> FALSE,
     disposables |-> Listeners, disposedListeners |-> {}]

\* useState initial values of DiagramApp; mounted: the 'ready' effect has run
NewWebview ==
    [mounted |-> FALSE, loading |-> TRUE, error |-> None, nodes |-> <<>>,
     edges |-> <<>>, stats |-> [nodes |-> 0, edges |-> 0]]

\* a refreshDiagram invocation: its panel and argument, where it stands (pc),
\* the request it has in flight (sent), its postMessage calls in the present
\* step (posted) and the state of its promise (settled)
IdleCall ==
    [panel |-> 0, uri |-> NoUri, pc |-> "idle", sent |-> None, posted |-> <<>>,
     settled |-> "pending"]

NewCall(p, uri) == [IdleCall EXCEPT !.panel = p, !.uri = uri, !.pc = "start"]

\* what is kept of an invocation once it has returned
finished(call) == [IdleCall EXCEPT !.pc = "done", !.settled = call.settled]

\* the states of the extension named 'jade-codes.sysml-language-support'
LspStates ==
    {[installed |-> FALSE, isActive |-> FALSE, hasGetClient |-> FALSE, connected |-> FALSE]}
    \cup {l \in [installed : {TRUE}, isActive : BOOLEAN, hasGetClient : BOOLEAN,
                  connected : BOOLEAN] : l.connected => l.hasGetClient}

\* values a rejected promise can carry: an Error or something else
ErrorOf(message) == [isError |-> TRUE, message |-> message, value |-> 0]

NonError(value) == [isError |-> FALSE, message |-> Undefined, value |-> value]

RejectionValues == {ErrorOf("request failed"), NonError(404)}

Init ==
    /\ currentPanel = 0
    /\ panels = [p \in Panels |-> NoPanel]
    /\ activeEditor \in {NoEditor} \cup Docs
    /\ lsp \in LspStates
    /\ calls = [c \in Calls |-> IdleCall]
    /\ toHost = [p \in Panels |-> <<>>]
    /\ toWebview = [p \in Panels |-> <<>>]
    /\ webview = [p \in Panels |-> NewWebview]
    /\ editorOps = {}
    /\ lastResponse = <<>>

\* ------------------------------------------------------------ messages
readyMessage == [type |-> "ready", uri |-> None, position |-> None]

refreshMessage == [type |-> "refresh", uri |-> None, position |-> None]

\* String(error) of a thrown value that is no Error
String(value) == IF value = 404 THEN "404" ELSE "0"

diagramMessageProcessed(result) ==
    [type |-> "diagram", data |-> DiagramData(processSymbols(result.symbols), result.relationships)]

diagramMessage(result) == [type |-> "diagram", data |-> result]

errorMessage(error) ==
    LET message == IF error.isError THEN error.message ELSE String(error.value)
    IN [type |-> "error", message |-> <<"Failed to get diagram: ", message>>]

diagramRequestAllFiles(uri) == [method |-> "syster/getDiagram", params |-> [uri |-> None]]

diagramRequest(uri) == [method |-> "syster/getDiagram", params |-> [uri |-> OptUriToString(uri)]]

\* vscode.Uri.parse of a string made by UriToString
UriParse(text) == text[2]

\* ----------------------------------------------------- refreshDiagram
returnDisposed(call) == [call EXCEPT !.pc = "done", !.settled = "resolved"]

\* a rejection that escapes refreshDiagram
catchBlockRethrows(call, error, disposed) ==
    [call EXCEPT !.pc = "done", !.settled = "rejected"]

\* the catch block of refreshDiagram
catchBlock(call, error, disposed) ==
    IF disposed
    THEN returnDisposed(call)
    ELSE [call EXCEPT !.pc = "done", !.settled = "resolved",
                      !.posted = Append(@, errorMessage(error))]

Outcome(ok, error) == [ok |-> ok, error |-> error]

\* getLspClient from `const api = lspExtension.exports` on
clientFromExports(l) ==
    IF ~l.hasGetClient
    THEN Outcome(FALSE, ErrorOf("LSP extension does not export getClient"))
    ELSE IF ~l.connected
    THEN Outcome(FALSE, ErrorOf("Language server not connected"))
    ELSE Outcome(TRUE, ErrorOf(Undefined))

\* refreshDiagram from the end of `await this.getLspClient()` to the next await
afterGetLspClient(call, outcome, disposed) ==
    IF ~outcome.ok THEN catchBlock(call, outcome.error, disposed)
    ELSE IF disposed THEN returnDisposed(call)
    ELSE [call EXCEPT !.pc = "requesting", !.sent = Some(diagramRequest(call.uri))]

\* refreshDiagram from `await client.sendRequest(...)` resolving to the end
afterResponseNoCheck(call, result, disposed) ==
    [call EXCEPT !.pc = "done", !.settled = "resolved",
                 !.posted = Append(@, diagramMessage(result))]

\* a response that is dropped
afterResponseSilent(call, result, disposed) == returnDisposed(call)

afterResponse(call, result, disposed) ==
    IF disposed THEN returnDisposed(call)
    ELSE [call EXCEPT !.pc = "done", !.settled = "resolved",
                      !.posted = Append(@, diagramMessage(result))]

\* refreshDiagram from its entry to its first await that really waits; what
\* runs between two awaits of already settled promises is one step, since
\* no other event is handled in between
refreshDiagram(call, disposed, l) ==
    IF disposed THEN returnDisposed(call)
    ELSE IF ~l.installed
    THEN catchBlock(call,
                    ErrorOf("SysML Language Support extension not found. Please install it first."),
                    disposed)
    ELSE IF ~l.isActive THEN [call EXCEPT !.pc = "activating"]
    ELSE afterGetLspClient(call, clientFromExports(l), disposed)

\* ------------------------------------------------------------ bookkeeping
UsedCalls(cs) == Cardinality({c \in Calls : cs[c].pc # "idle"})

\* refreshDiagram invocations still to come from what is already under way:
\* webview messages not yet handled and webviews that have not yet sent 'ready'
Reserved ==
    UsedCalls(calls)
    + Cardinality({<<p, i>> \in Panels \X (1..(MaxCalls + 1)) :
                      i <= Len(toHost[p]) /\ toHost[p][i].type \in {"ready", "refresh"}})
    + Cardinality({p \in Panels : /\ panels[p].constructed
                                  /\ ~panels[p].panelDisposed
                                  /\ ~webview[p].mounted})

startRefresh(cs, p, uri) ==
    [cs EXCEPT ![UsedCalls(cs) + 1] =
        refreshDiagram(NewCall(p, uri), panels[p].isDisposed, lsp)]

\* what calls 1..n newly posted to panel p, in call order
RECURSIVE newPosts(_, _, _)
newPosts(cs, p, n) ==
    IF n = 0 THEN <<>>
    ELSE newPosts(cs, p, n - 1)
         \o (IF cs[n].panel = p
             THEN cs[n].posted ELSE <<>>)

\* this.panel.webview.postMessage for everything the step posted; an
\* invocation that has returned keeps only the state of its promise
Commit(cs) ==
    /\ calls' = [c \in Calls |-> IF cs[c].pc = "done" THEN finished(cs[c]) ELSE cs[c]]
    /\ toWebview' = [p \in Panels |-> toWebview[p] \o newPosts(cs, p, MaxCalls)]


\* ------------------------------------------------------- host actions
NextPanel == Cardinality({p \in Panels : panels[p].constructed}) + 1

\* the command 'syster.showDiagram': DiagramPanel.createOrShow
CreateOrShow ==
    /\ IF currentPanel # 0
       THEN UNCHANGED <<currentPanel, panels, webview>>
       ELSE /\ NextPanel <= MaxPanels
            /\ Reserved < MaxCalls
            /\ panels' = [panels EXCEPT ![NextPanel] = NewPanel]
            /\ webview' = [webview EXCEPT ![NextPanel] = NewWebview]
            /\ currentPanel' = NextPanel
    /\ UNCHANGED <<activeEditor, lsp, calls, toHost, toWebview, editorOps, lastResponse>>

\* the while loop of dispose: pop and dispose every listener
RECURSIVE popAll(_)
popAll(panel) ==
    IF Len(panel.disposables) = 0 THEN panel
    ELSE popAll([panel EXCEPT
                    !.disposables = SubSeq(@, 1, Len(@) - 1),
                    !.disposedListeners = @ \cup {panel.disposables[Len(panel.disposables)]}])

\* the value dispose() on panel p gives DiagramPanel.currentPanel
currentPanelAfterDispose(p) == 0

\* dispose(); this.panel.dispose() fires onDidDispose, which runs dispose()
\* again inside the first run when the listener is still registered, with
\* the same assignments. The webview goes with the panel, and with it its
\* state and the messages it has not handled
disposeBody(p) ==
    /\ panels' = [panels EXCEPT ![p] =
                     popAll([@ EXCEPT !.isDisposed = TRUE, !.panelDisposed = TRUE])]
    /\ currentPanel' = currentPanelAfterDispose(p)
    /\ webview' = [webview EXCEPT ![p] = NewWebview]
    /\ toWebview' = [toWebview EXCEPT ![p] = <<>>]
    /\ UNCHANGED <<activeEditor, lsp, calls, toHost, editorOps, lastResponse>>

\* a caller of the public dispose(), on any DiagramPanel object it holds
Dispose(p) ==
    /\ panels[p].constructed
    /\ disposeBody(p)

\* the user closes the panel: VS Code disposes it and fires onDidDispose
ClosePanel(p) ==
    /\ panels[p].constructed
    /\ ~panels[p].panelDisposed
    /\ "onDidDispose" \in {panels[p].disposables[i] : i \in 1..Len(panels[p].disposables)}
    /\ disposeBody(p)

listening(p, listener) ==
    \E i \in 1..Len(panels[p].disposables) : panels[p].disposables[i] = listener

\* handleMessage, for the message at the head of the panel's queue
HandleMessage(p) ==
    /\ panels[p].constructed
    /\ Len(toHost[p]) > 0
    /\ toHost' = [toHost EXCEPT ![p] = Tail(@)]
    /\ LET message == Head(toHost[p])
       IN IF panels[p].isDisposed
          THEN UNCHANGED <<calls, toWebview, editorOps>>
          ELSE CASE message.type = "ready" ->
                      /\ IF activeEditor # NoEditor /\ isSysMLFile(activeEditor)
                         THEN Commit(startRefresh(calls, p, activeEditor))
                         ELSE /\ toWebview' = [toWebview EXCEPT ![p] =
                                                  Append(@, diagramMessage(EmptyData))]
                              /\ UNCHANGED calls
                      /\ UNCHANGED editorOps
                 [] message.type = "refresh" ->
                      /\ Commit(startRefresh(calls, p,
                                   IF Truthy(message.uri) THEN UriParse(message.uri[1])
                                   ELSE NoUri))
                      /\ UNCHANGED editorOps
                 [] message.type = "navigate" ->
                      /\ IF Truthy(message.uri) /\ Len(message.position) = 1
                         THEN editorOps' = editorOps \cup
                                {[op |-> "showTextDocument",
                                  uri |-> UriParse(message.uri[1]),
                                  selection |-> <<message.position[1], message.position[1]>>]}
                         ELSE UNCHANGED editorOps
                      /\ UNCHANGED <<calls, toWebview>>
                 [] OTHER -> UNCHANGED <<calls, toWebview, editorOps>>
    /\ UNCHANGED <<currentPanel, panels, activeEditor, lsp, webview, lastResponse>>

\* the onDidChangeActiveTextEditor listeners of panels p..MaxPanels, in order
RECURSIVE editorListeners(_, _, _)
editorListeners(cs, p, editor) ==
    IF p > MaxPanels THEN cs
    ELSE editorListeners(
            IF /\ listening(p, "onDidChangeActiveTextEditor")
               /\ editor # NoEditor /\ isSysMLFile(editor)
            THEN startRefresh(cs, p, editor)
            ELSE cs,
            p + 1, editor)

\* the user makes another editor, or none, the active one
ChangeActiveEditor(editor) ==
    /\ editor # activeEditor
    /\ activeEditor' = editor
    /\ (editor # NoEditor /\ isSysMLFile(editor)) =>
          Reserved + Cardinality({p \in Panels :
                                    listening(p, "onDidChangeActiveTextEditor")}) <= MaxCalls
    /\ Commit(editorListeners(calls, 1, editor))
    /\ UNCHANGED <<currentPanel, panels, lsp, toHost, webview, editorOps, lastResponse>>

ApiUris == {NoUri}

\* a caller of the public refreshDiagram(uri), on any DiagramPanel object it holds
RefreshDiagram(p, uri) ==
    /\ panels[p].constructed
    /\ Reserved < MaxCalls
    /\ Commit(startRefresh(calls, p, uri))
    /\ UNCHANGED <<currentPanel, panels, activeEditor, lsp, toHost, webview, editorOps, lastResponse>>


\* --------------------------------------- the extension and the server
Activating == {c \in Calls : calls[c].pc = "activating"}

\* lspExtension.activate() resolves: every refreshDiagram awaiting it goes on
ActivationResolves ==
    /\ Activating # {}
    /\ lsp' = [lsp EXCEPT !.isActive = TRUE]
    /\ Commit([c \in Calls |->
                 IF c \in Activating
                 THEN afterGetLspClient(calls[c], clientFromExports(lsp),
                                        panels[calls[c].panel].isDisposed)
                 ELSE calls[c]])
    /\ UNCHANGED <<currentPanel, panels, activeEditor, toHost, webview, editorOps, lastResponse>>

\* lspExtension.activate() rejects: every refreshDiagram awaiting it catches
ActivationRejects(error) ==
    /\ Activating # {}
    /\ Commit([c \in Calls |->
                 IF c \in Activating
                 THEN catchBlock(calls[c], error, panels[calls[c].panel].isDisposed)
                 ELSE calls[c]])
    /\ UNCHANGED <<currentPanel, panels, activeEditor, lsp, toHost, webview, editorOps, lastResponse>>

\* the server answers the 'syster/getDiagram' request of call c
RequestResolves(c, result) ==
    /\ calls[c].pc = "requesting"
    /\ Commit([calls EXCEPT ![c] =
                 afterResponse(@, result, panels[calls[c].panel].isDisposed)])
    /\ lastResponse' = <<c, result>>
    /\ UNCHANGED <<currentPanel, panels, activeEditor, lsp, toHost, webview, editorOps>>

\* the 'syster/getDiagram' request of call c fails
RequestRejects(c, error) ==
    /\ calls[c].pc = "requesting"
    /\ Commit([calls EXCEPT ![c] =
                 catchBlock(@, error, panels[calls[c].panel].isDisposed)])
    /\ UNCHANGED <<currentPanel, panels, activeEditor, lsp, toHost, webview, editorOps, lastResponse>>

\* ------------------------------------------------------------ the webview
webviewAlive(p) == panels[p].constructed /\ ~panels[p].panelDisposed

\* the messages DiagramApp can post in its present state: 'ready' from the
\* mount effect, 'refresh' from the Refresh button (disabled while loading)
\* or the Retry button of the error view
WebviewPostable(p) ==
    IF ~webviewAlive(p) THEN {}
    ELSE IF ~webview[p].mounted THEN {readyMessage}
    ELSE IF Truthy(webview[p].error) \/ ~webview[p].loading THEN {refreshMessage}
    ELSE {}

\* useEffect(() => vscode.postMessage({ type: 'ready' }), [])
WebviewMount(p) ==
    /\ readyMessage \in WebviewPostable(p)
    /\ webview' = [webview EXCEPT ![p].mounted = TRUE]
    /\ toHost' = [toHost EXCEPT ![p] = Append(@, readyMessage)]
    /\ UNCHANGED <<currentPanel, panels, activeEditor, lsp, calls, toWebview, editorOps, lastResponse>>

\* handleRefresh
WebviewRefresh(p) ==
    /\ refreshMessage \in WebviewPostable(p)
    /\ Reserved < MaxCalls
    /\ webview' = [webview EXCEPT ![p].loading = TRUE]
    /\ toHost' = [toHost EXCEPT ![p] = Append(@, refreshMessage)]
    /\ UNCHANGED <<currentPanel, panels, activeEditor, lsp, calls, toWebview, editorOps, lastResponse>>

\* the nodes and edges the 'diagram' case computes, tabulated over the data
\* the server can send
flowElements ==
    [data \in InputData \cup Results |->
        [nodes |-> diagramNodes(data), edges |-> diagramEdges(data)]]

\* the webview's handleMessage, for the message at the head of its queue
webviewHandleMessage(state, message) ==
    IF message.type = "diagram"
    THEN LET newNodes == flowElements[message.data].nodes
             newEdges == flowElements[message.data].edges
         IN [state EXCEPT !.nodes = newNodes, !.edges = newEdges,
                          !.stats = [nodes |-> Len(newNodes), edges |-> Len(newEdges)],
                          !.loading = FALSE, !.error = None]
    ELSE IF message.type = "error"
    THEN [state EXCEPT !.error = Some(message.message), !.loading = FALSE]
    ELSE state

WebviewReceive(p) ==
    /\ webviewAlive(p)
    /\ webview[p].mounted
    /\ Len(toWebview[p]) > 0
    /\ webview' = [webview EXCEPT ![p] = webviewHandleMessage(@, Head(toWebview[p]))]
    /\ toWebview' = [toWebview EXCEPT ![p] = Tail(@)]
    /\ UNCHANGED <<currentPanel, panels, activeEditor, lsp, calls, toHost, editorOps, lastResponse>>

\* -------------------------------------------------------- specifications
Next ==
    \/ CreateOrShow
    \/ \E p \in Panels : Dispose(p)
    \/ \E p \in Panels : ClosePanel(p)
    \/ \E p \in Panels : HandleMessage(p)
    \/ \E editor \in {NoEditor} \cup Docs : ChangeActiveEditor(editor)
    \/ \E p \in Panels, uri \in ApiUris : RefreshDiagram(p, uri)
    \/ ActivationResolves
    \/ \E error \in RejectionValues : ActivationRejects(error)
    \/ \E c \in Calls, result \in Results : RequestResolves(c, result)
    \/ \E c \in Calls, error \in RejectionValues : RequestRejects(c, error)
    \/ \E p \in Panels : WebviewMount(p)
    \/ \E p \in Panels : WebviewRefresh(p)
    \/ \E p \in Panels : WebviewReceive(p)

Spec == Init /\ [][Next]_vars


\* The symbol translation on its own: a panel is open, its webview has sent
\* 'ready', the refreshDiagram started for document 1 has its request in
\* flight, and the server answers with any symbol list of InputData.
InitSym ==
    /\ currentPanel = 1
    /\ panels = [p \in Panels |-> IF p = 1 THEN NewPanel ELSE NoPanel]
    /\ activeEditor = 1
    /\ lsp = [installed |-> TRUE, isActive |-> TRUE, hasGetClient |-> TRUE, connected |-> TRUE]
    /\ calls = [c \in Calls |->
                  IF c = 1
                  THEN [NewCall(1, 1) EXCEPT !.pc = "requesting", !.sent = Some(diagramRequest(1))]
                  ELSE IdleCall]
    /\ toHost = [p \in Panels |-> <<>>]
    /\ toWebview = [p \in Panels |-> <<>>]
    /\ webview = [p \in Panels |-> IF p = 1 THEN [NewWebview EXCEPT !.mounted = TRUE]
                                   ELSE NewWebview]
    /\ editorOps = {}
    /\ lastResponse = <<>>

NextSym ==
    \/ \E c \in Calls, result \in InputData : RequestResolves(c, result)
    \/ \E p \in Panels : WebviewReceive(p)

SpecSym == InitSym /\ [][NextSym]_vars

\* ------------------------------------------------ vocabulary of the claims
\* the webview of panel p shows the diagram of the server's latest answer
Shows(p) ==
    /\ lastResponse # <<>>
    /\ webviewAlive(p)
    /\ toWebview[p] = <<>>
    /\ ~webview[p].loading
    /\ webview[p].error = None

InputSymbols == lastResponse[2].symbols

SeparatorPositions(text) ==
    {i \in 1..(Len(text) - 1) : text[i] = ":" /\ text[i + 1] = ":"}

ContainsSeparator(text) == SeparatorPositions(text) # {}

\* the text before the last '::'
TextBeforeLastSeparator(text) ==
    LET last == CHOOSE i \in SeparatorPositions(text) :
                    \A j \in SeparatorPositions(text) : j <= i
    IN SubSeq(text, 1, last - 1)

\* kind 'Usage' with usageKind 'Attribute' or 'Reference'
FeatureKind(symbol) ==
    symbol.kind = "Usage" /\ symbol.usageKind \in {"Attribute", "Reference"}

QualifiedNamesOf(symbols) == {symbols[i].qualifiedName : i \in 1..Len(symbols)}

\* a feature symbol whose parent qualified name is that of some input symbol
FeatureWithParent(symbols, i) ==
    /\ FeatureKind(symbols[i])
    /\ ContainsSeparator(symbols[i].qualifiedName)
    /\ TextBeforeLastSeparator(symbols[i].qualifiedName) \in QualifiedNamesOf(symbols)

\* 'name : typedBy' when typedBy is set, otherwise 'name'
FeatureText(symbol) ==
    IF symbol.typedBy # None /\ symbol.typedBy[1] # <<>>
    THEN symbol.name \o <<" ", ":", " ">> \o symbol.typedBy[1]
    ELSE symbol.name

\* node is the node of symbol
NodeOf(node, symbol) ==
    /\ node.data.qualifiedName = symbol.qualifiedName
    /\ node.data.name = symbol.name
    /\ node.data.typedBy = symbol.typedBy
    /\ node.type = nodeTypeOf(symbol)

ListedIn(text, list) == \E j \in 1..Len(list) : list[j] = text

\* ------------------------------------------------------------------ C1
\* C1: feature attachment loses no symbol. Of every symbol list shown, each
\* symbol has its own node, or it is a feature symbol whose parent qualified
\* name is that of an input symbol and its feature text is among the
\* features of the node of that parent (also when the parent is a feature
\* symbol itself).
C1_NoSymbolLost ==
    Shows(1) =>
        LET symbols == InputSymbols
            nodes == webview[1].nodes
        IN \A i \in 1..Len(symbols) :
              \/ \E k \in 1..Len(nodes) : NodeOf(nodes[k], symbols[i])
              \/ /\ FeatureWithParent(symbols, i)
                 /\ \E k \in 1..Len(nodes) :
                       /\ nodes[k].data.qualifiedName =
                             TextBeforeLastSeparator(symbols[i].qualifiedName)
                       /\ ListedIn(FeatureText(symbols[i]), nodes[k].data.features[1])

\* ------------------------------------------------------------------ C2
\* the input positions the claim gives a node
KeptPositions(symbols) ==
    {i \in 1..Len(symbols) : ~FeatureWithParent(symbols, i)}

\* the k-th smallest element of a set of numbers
RECURSIVE KthOf(_, _)
KthOf(S, k) ==
    LET least == CHOOSE x \in S : \A y \in S : x <= y
    IN IF k = 1 THEN least ELSE KthOf(S \ {least}, k - 1)

\* C2: a symbol gets a node if and only if it is no feature symbol, or it is
\* one whose qualifiedName has no '::' or whose parent qualified name is not
\* among the input qualifiedNames; so there are as many nodes as input
\* symbols less the feature symbols whose parent is present, and the nodes
\* keep the input order of their symbols.
C2_NodeIffNotFolded ==
    Shows(1) =>
        LET symbols == InputSymbols
            nodes == webview[1].nodes
            kept == KeptPositions(symbols)
        IN /\ Len(nodes) = Cardinality(kept)
           /\ Len(nodes) = Len(symbols)
                           - Cardinality({i \in 1..Len(symbols) : FeatureWithParent(symbols, i)})
           /\ \A k \in 1..Len(nodes) :
                 k <= Cardinality(kept) => NodeOf(nodes[k], symbols[KthOf(kept, k)])

\* ------------------------------------------------------------------ C3
\* C3: the node at 0-based index i is at x = (i mod 4) * 220 + 40 and
\* y = floor(i / 4) * 140 + 40; so no two nodes share a position, a row
\* holds at most 4 nodes, and a row is full before the next one is begun.
C3_GridLayout ==
    \A p \in Panels :
        LET nodes == webview[p].nodes
            InRow(r) == {k \in 1..Len(nodes) : nodes[k].position.y = r * 140 + 40}
        IN /\ \A k \in 1..Len(nodes) :
                 /\ nodes[k].position.x = ((k - 1) % 4) * 220 + 40
                 /\ nodes[k].position.y = ((k - 1) \div 4) * 140 + 40
           /\ \A j, k \in 1..Len(nodes) :
                 j # k => nodes[j].position # nodes[k].position
           /\ \A r \in 0..Len(nodes) :
                 /\ Cardinality(InRow(r)) <= 4
                 /\ InRow(r + 1) # {} => Cardinality(InRow(r)) = 4

\* a diagram of more than one row is shown
C3_Witness == Shows(1) /\ Len(webview[1].nodes) > 4


\* ------------------------------------------------------ steps, as observed
Live(p) == panels[p].constructed /\ ~panels[p].isDisposed

\* the messages the step posts to the webview of panel p
Posted(p) ==
    IF Len(toWebview'[p]) > Len(toWebview[p])
    THEN SubSeq(toWebview'[p], Len(toWebview[p]) + 1, Len(toWebview'[p]))
    ELSE <<>>

ErrorPost(reason) ==
    [type |-> "error", message |-> <<"Failed to get diagram: ", reason>>]

DiagramPost(data) == [type |-> "diagram", data |-> data]

IsErrorPost(message) ==
    /\ message.type = "error"
    /\ \E e \in RejectionValues :
          message = ErrorPost(IF e.isError THEN e.message ELSE IF e.value = 404 THEN "404" ELSE "0")

\* the step handles the webview message at the head of panel p's queue
Handles(p) == Len(toHost[p]) > 0 /\ toHost'[p] = Tail(toHost[p])

\* the number of the invocation a step starts, if it starts one
NewCallId == UsedCalls(calls) + 1

SysMLEditor(editor) ==
    editor # NoEditor /\ languageId(editor) \in {"sysml", "kerml"}

\* why getLspClient fails without waiting, or "" when it does not
ClientFailure(l) ==
    IF ~l.installed
    THEN "SysML Language Support extension not found. Please install it first."
    ELSE IF ~l.hasGetClient THEN "LSP extension does not export getClient"
    ELSE IF ~l.connected THEN "Language server not connected"
    ELSE ""

\* the step starts a refreshDiagram on panel p
Starts(p) ==
    \/ /\ Handles(p)
       /\ \/ Head(toHost[p]).type = "refresh"
          \/ Head(toHost[p]).type = "ready" /\ SysMLEditor(activeEditor)
    \/ /\ activeEditor' # activeEditor
       /\ SysMLEditor(activeEditor')
    \/ \E uri \in ApiUris : RefreshDiagram(p, uri)

\* the invocations on panel p that wait for the activation, in call order
RECURSIVE ActivatingOn(_, _)
ActivatingOn(p, n) ==
    IF n = 0 THEN <<>>
    ELSE ActivatingOn(p, n - 1)
         \o (IF calls[n].pc = "activating" /\ calls[n].panel = p THEN <<n>> ELSE <<>>)

\* the step settles the activation of the extension
ActivationSettles ==
    /\ Activating # {}
    /\ \A c \in Activating : calls'[c].pc # "activating"

\* ------------------------------------------------------------------ C8
\* C8: at most one panel is not disposed; DiagramPanel.currentPanel is
\* undefined exactly when there is none and is that panel otherwise, over
\* any sequence of createOrShow, closes and dispose() calls, a repeated
\* dispose() on a disposed panel included.
C8_SingletonPanel ==
    LET live == {p \in Panels : Live(p)}
    IN /\ Cardinality(live) <= 1
       /\ currentPanel = 0 <=> live = {}
       /\ currentPanel # 0 => currentPanel \in live

\* ------------------------------------------------------------------ C6
\* the webview shows a diagram that has elements
ShowsElements(p) ==
    /\ webviewAlive(p)
    /\ webview[p].mounted
    /\ ~webview[p].loading
    /\ webview[p].error = None
    /\ Len(webview[p].nodes) > 0

\* C6: navigation from diagram elements. A webview that shows a diagram
\* with elements can send a 'navigate' message carrying a uri and a
\* position (the behaviour the claim says is reachable needs such a state).
C6_NavigateFromDiagram ==
    \A p \in Panels :
        ShowsElements(p) =>
            \E m \in WebviewPostable(p) :
                m.type = "navigate" /\ m.uri # None /\ m.position # None


\* ------------------------------------------------------------------ C4
Started(c) == calls[c].pc = "idle" /\ calls'[c].pc # "idle"

\* the step settles the request of invocation c
RequestSettles(c) == calls[c].pc = "requesting" /\ calls'[c].pc # "requesting"

ServerAnswers == lastResponse' # lastResponse

C4_Step ==
    /\ \A c \in Calls : calls'[c].pc = "done" => calls'[c].settled = "resolved"
    /\ \A p \in Panels : Live(p) =>
          \* getLspClient throws before any wait
          /\ (Starts(p) /\ ClientFailure(lsp) # "" /\ (~lsp.installed \/ lsp.isActive)) =>
                /\ Posted(p) = <<ErrorPost(ClientFailure(lsp))>>
                /\ \A c \in Calls : Started(c) => calls'[c].pc = "done"
          \* the activation rejects, or resolves with unusable exports
          /\ ActivationSettles =>
                LET waiters == ActivatingOn(p, MaxCalls)
                IN IF ~lsp'.isActive
                   THEN /\ Len(Posted(p)) = Len(waiters)
                        /\ \A k \in 1..Len(Posted(p)) : IsErrorPost(Posted(p)[k])
                        /\ \A k \in 1..Len(waiters) : calls'[waiters[k]].pc = "done"
                   ELSE IF ClientFailure(lsp') # ""
                   THEN /\ Posted(p) = [k \in 1..Len(waiters) |-> ErrorPost(ClientFailure(lsp'))]
                        /\ \A k \in 1..Len(waiters) : calls'[waiters[k]].pc = "done"
                   ELSE /\ Posted(p) = <<>>
                        /\ \A k \in 1..Len(waiters) : calls'[waiters[k]].pc = "requesting"
          \* the request rejects, or is answered
          /\ \A c \in Calls :
                (calls[c].panel = p /\ RequestSettles(c)) =>
                    /\ calls'[c].pc = "done"
                    /\ IF ServerAnswers
                       THEN Posted(p) = <<DiagramPost(lastResponse'[2])>>
                       ELSE Len(Posted(p)) = 1 /\ IsErrorPost(Posted(p)[1])
          \* nothing is posted otherwise, but the empty diagram on 'ready'
          /\ Posted(p) # <<>> =>
                \/ Starts(p)
                \/ ActivationSettles
                \/ \E c \in Calls : calls[c].panel = p /\ RequestSettles(c)
                \/ Handles(p) /\ Head(toHost[p]).type = "ready"

\* C4: one try/catch covers the whole refresh. On a panel that is not
\* disposed, every failure of a refreshDiagram (extension not installed, no
\* getClient, no client, activation rejected, request rejected) posts
\* exactly one 'error' message 'Failed to get diagram: <reason>' and no
\* 'diagram' message, and the promise resolves; an answered request posts
\* exactly one 'diagram' message with the server's result and no 'error'.
C4_SingleTryCatch == [][C4_Step]_vars

\* a failure has been reported to a webview, which shows it
C4_Witness ==
    \E p \in Panels :
        /\ Live(p)
        /\ webview[p].error # None
        /\ \E c \in Calls : calls[c].pc = "done"

\* ------------------------------------------------------------------ C5
ReadyOn(p) == Live(p) /\ Handles(p) /\ Head(toHost[p]).type = "ready"

RequestFor(doc) ==
    [method |-> "syster/getDiagram", params |-> [uri |-> <<<<"file:///doc", doc>>>>]]

NoDiagramPosted(p) == \A k \in 1..Len(Posted(p)) : Posted(p)[k].type # "diagram"

EmptyDiagramPosted(p) ==
    /\ calls' = calls
    /\ Posted(p) = <<DiagramPost([symbols |-> <<>>, relationships |-> <<>>])>>

C5_OriginalStep ==
    \A p \in Panels : ReadyOn(p) =>
        IF SysMLEditor(activeEditor)
        THEN /\ calls'[NewCallId].pc \in {"requesting", "activating"}
             /\ calls'[NewCallId].pc = "requesting" =>
                   calls'[NewCallId].sent = <<RequestFor(activeEditor)>>
        ELSE EmptyDiagramPosted(p)

\* C5 as claimed: on 'ready' with a sysml or kerml document active, the host
\* issues a 'syster/getDiagram' request with that document's URI (at once,
\* or once the activation it waits for is over); otherwise it issues no
\* request and posts the empty diagram.
C5_ReadyIssuesRequest == [][C5_OriginalStep]_vars

C5_AmendedStep ==
    /\ \A p \in Panels : ReadyOn(p) =>
          IF SysMLEditor(activeEditor)
          THEN /\ Started(NewCallId)
               /\ NoDiagramPosted(p)
               /\ calls'[NewCallId].pc = "requesting" =>
                     calls'[NewCallId].sent = <<RequestFor(activeEditor)>>
               /\ calls'[NewCallId].pc = "activating" =>
                     /\ calls'[NewCallId].panel = p
                     /\ calls'[NewCallId].uri = activeEditor
                     /\ calls'[NewCallId].sent = None
               /\ calls'[NewCallId].pc = "done" =>
                     /\ ClientFailure(lsp) # ""
                     /\ Posted(p) = <<ErrorPost(ClientFailure(lsp))>>
          ELSE EmptyDiagramPosted(p)
    /\ \A c \in Calls :
          (calls[c].pc = "activating" /\ calls'[c].pc = "requesting") =>
              /\ calls'[c].sent = <<RequestFor(calls[c].uri)>> \/ calls[c].uri = NoUri
              /\ ClientFailure(lsp') = ""
              /\ Live(calls[c].panel)

\* C5, amended: on 'ready' with a sysml or kerml document active, the host
\* starts a refreshDiagram for that document's URI and posts no diagram at
\* once; the refresh issues the 'syster/getDiagram' request with that URI
\* unless getLspClient fails (then it posts the error) or the panel is
\* disposed before the client is there. Otherwise the host starts nothing
\* and posts the empty diagram at once.
C5_ReadyStartsRefresh == [][C5_AmendedStep]_vars

\* 'ready' has been handled with a SysML document active, and the request
\* for that document is in flight
C5_Witness ==
    \E p \in Panels :
        /\ Live(p)
        /\ webview[p].mounted /\ webview[p].loading
        /\ toHost[p] = <<>> /\ toWebview[p] = <<>>
        /\ UsedCalls(calls) = 1
        /\ calls[1].pc = "requesting" /\ calls[1].panel = p
        /\ SysMLEditor(activeEditor)
        /\ calls[1].sent = <<RequestFor(activeEditor)>>

\* ------------------------------------------------------------------ C7
C7_Step ==
    /\ \A c \in Calls :
          calls'[c].sent # None => calls'[c].sent[1].method = "syster/getDiagram"
    /\ \A o \in editorOps' : o.op = "showTextDocument"
    /\ \A p \in Panels : \A k \in 1..Len(Posted(p)) :
          Posted(p)[k].type = "diagram" =>
              IF ServerAnswers THEN Posted(p)[k].data = lastResponse'[2]
              ELSE Handles(p) /\ Posted(p)[k].data = [symbols |-> <<>>, relationships |-> <<>>]

\* C7: the viewer is read-only. The only request the host sends is
\* 'syster/getDiagram', the only editor action is showTextDocument, and the
\* data of every 'diagram' message is the server's answer as received (or
\* the empty diagram of the 'ready' case).
C7_ReadOnly == [][C7_Step]_vars

\* a diagram with symbols has been forwarded and is waiting in the queue
C7_Witness ==
    \E p \in Panels :
        /\ lastResponse # <<>>
        /\ Len(lastResponse[2].symbols) > 0
        /\ Len(toWebview[p]) > 0
        /\ toWebview[p][Len(toWebview[p])].type = "diagram"
        /\ toWebview[p][Len(toWebview[p])].data = lastResponse[2]

\* ------------------------------------------------------------------ C9
C9_Step ==
    /\ \A p \in Panels : panels[p].isDisposed =>
          /\ Posted(p) = <<>>
          /\ \A c \in Calls :
                (calls'[c].panel = p /\ calls'[c].pc = "requesting") =>
                    calls[c].pc = "requesting"
    /\ \A p \in Panels : panels'[p].isDisposed =>
          /\ panels'[p].disposables = <<>>
          /\ panels'[p].disposedListeners =
                {"onDidDispose", "onDidReceiveMessage", "onDidChangeActiveTextEditor"}

\* C9: once dispose() has run on a panel, nothing is posted to its webview
\* and no request is started for it, wherever a refreshDiagram in flight
\* stands and whatever is delivered afterwards; and dispose disposes and
\* empties every registered listener.
C9_NoUseAfterDispose == [][C9_Step]_vars

\* a panel is disposed while its refreshDiagram waits for the server
C9_Witness ==
    \E c \in Calls :
        /\ calls[c].pc = "requesting"
        /\ panels[calls[c].panel].isDisposed


\* ------------------------------------------------------------------ C10
\* The panel is never disposed; the host handles every webview message, the
\* webview runs its mount effect and handles every host message, and the
\* activation and every request eventually resolve or reject.
NextLive ==
    \/ CreateOrShow
    \/ \E p \in Panels : HandleMessage(p)
    \/ \E editor \in {NoEditor} \cup Docs : ChangeActiveEditor(editor)
    \/ \E p \in Panels, uri \in ApiUris : RefreshDiagram(p, uri)
    \/ ActivationResolves
    \/ \E error \in RejectionValues : ActivationRejects(error)
    \/ \E c \in Calls, result \in Results : RequestResolves(c, result)
    \/ \E c \in Calls, error \in RejectionValues : RequestRejects(c, error)
    \/ \E p \in Panels : WebviewMount(p)
    \/ \E p \in Panels : WebviewRefresh(p)
    \/ \E p \in Panels : WebviewReceive(p)

ActivationEnds == ActivationResolves \/ \E error \in RejectionValues : ActivationRejects(error)

RequestEnds(c) ==
    \/ \E result \in Results : RequestResolves(c, result)
    \/ \E error \in RejectionValues : RequestRejects(c, error)

SpecLive ==
    /\ Init
    /\ [][NextLive]_vars
    /\ \A p \in Panels : WF_vars(HandleMessage(p))
    /\ \A p \in Panels : WF_vars(WebviewMount(p))
    /\ \A p \in Panels : WF_vars(WebviewReceive(p))
    /\ WF_vars(ActivationEnds)
    /\ \A c \in Calls : WF_vars(RequestEnds(c))

\* what is under way for panel p: webview messages the host has not handled,
\* refreshDiagram invocations that have not returned, host messages the
\* webview has not handled
Pending(p) ==
    Len(toHost[p]) + Len(toWebview[p])
    + Cardinality({c \in Calls : calls[c].panel = p /\ calls[c].pc \in {"activating", "requesting"}})

\* C10: every request is answered. With the panel never disposed and the
\* activation and the requests eventually settling, whatever is under way
\* for a panel is eventually handled and delivered, and a loading flag that
\* is true eventually becomes false.
C10_EveryRequestAnswered ==
    \A p \in Panels :
        /\ (panels[p].constructed /\ webview[p].loading) ~> ~webview[p].loading
        /\ (Pending(p) > 0) ~> (Pending(p) = 0)

\* the webview has asked twice or more, everything is answered and
\* delivered, and it is no longer loading
C10_Witness ==
    \E p \in Panels :
        /\ webview[p].mounted
        /\ ~webview[p].loading
        /\ Pending(p) = 0
        /\ UsedCalls(calls) >= 2

\* ------------------------------------------------------------------ C12
\* the uri field of a WebviewMessage: absent, the empty string, or the
\* string of a document's URI
MessageUris == {None, Some(<<>>)} \cup {Some(UriToString(doc)) : doc \in {1, 3}}

\* onDidReceiveMessage fires with a 'refresh' message that carries uri
ReceiveRefresh(p, uri) ==
    /\ webviewAlive(p)
    /\ Reserved < MaxCalls
    /\ toHost' = [toHost EXCEPT ![p] = Append(@, [refreshMessage EXCEPT !.uri = uri])]
    /\ UNCHANGED <<currentPanel, panels, activeEditor, lsp, calls, toWebview, webview,
                   editorOps, lastResponse>>

\* the host under every 'refresh' message its handler accepts
NextHost ==
    \/ Next
    \/ \E p \in Panels, uri \in MessageUris : ReceiveRefresh(p, uri)

SpecHost == Init /\ [][NextHost]_vars

\* the 'syster/getDiagram' request that carries the optional string text
RequestWith(text) == [method |-> "syster/getDiagram", params |-> [uri |-> text]]

\* the step starts exactly one refreshDiagram on panel p, for the optional uri
\* string text: it sends the request, waits for the activation, or fails to
\* get the client and posts the error
StartsRefreshFor(p, text) ==
    /\ Cardinality({c \in Calls : Started(c) /\ calls'[c].panel = p}) <= 1
    /\ \/ \E c \in Calls :
             /\ Started(c)
             /\ calls'[c].panel = p
             /\ calls'[c].pc \in {"requesting", "activating"}
             /\ calls'[c].pc = "requesting" => calls'[c].sent = <<RequestWith(text)>>
             /\ calls'[c].pc = "activating" =>
                    /\ calls'[c].sent = None
                    /\ OptUriToString(calls'[c].uri) = text
             /\ Posted(p) = <<>>
       \/ /\ ClientFailure(lsp) # ""
          /\ Posted(p) = <<ErrorPost(ClientFailure(lsp))>>

\* a change of the active editor, seen from a panel that is not disposed
C12_EditorStep ==
    \A p \in Panels :
        (Live(p) /\ activeEditor' # activeEditor) =>
            IF activeEditor' # NoEditor /\ languageId(activeEditor') \in {"sysml", "kerml"}
            THEN StartsRefreshFor(p, Some(<<"file:///doc", activeEditor'>>))
            ELSE /\ calls' = calls
                 /\ Posted(p) = <<>>
                 /\ webview'[p] = webview[p]

RefreshOn(p) == Live(p) /\ Handles(p) /\ Head(toHost[p]).type = "refresh"

C12_OriginalStep ==
    /\ C12_EditorStep
    /\ \A p \in Panels : RefreshOn(p) => StartsRefreshFor(p, Head(toHost[p]).uri)

PresentUri(message) ==
    IF message.uri # None /\ message.uri[1] # <<>> THEN message.uri ELSE None

C12_AmendedStep ==
    /\ C12_EditorStep
    /\ \A p \in Panels : RefreshOn(p) => StartsRefreshFor(p, PresentUri(Head(toHost[p])))

SinglePanel == Cardinality({q \in Panels : panels[q].constructed}) = 1

\* invocation c is the only one that has not returned
LastInFlight(c) == \A d \in Calls \ {c} : calls[d].pc \in {"idle", "done"}

\* the server has already answered an invocation started after c
LaterAnswered(c) == lastResponse # <<>> /\ lastResponse[1] > c

C11_Step ==
    \A c \in Calls, p \in Panels :
        (/\ calls[c].panel = p
         /\ Live(p)
         /\ SinglePanel
         /\ RequestSettles(c)
         /\ LastInFlight(c)
         /\ LaterAnswered(c))
        => \A k \in 1..Len(Posted(p)) :
              Posted(p)[k].type = "diagram" => Posted(p)[k].data = lastResponse[2]

\* C11: latest request wins. When the response to a refreshDiagram arrives
\* after the server has answered one started later on the same panel, and no
\* other refresh is in flight, no diagram other than the later answer is
\* posted, so that what the webview shows in the end is the response to the
\* most recently started refresh.
C11_LatestRequestWins == [][C11_Step]_vars

====
